---- MODULE Spec2Model ----
(***************************************************************************)
(* Model of pymeasure/instruments/hp/hpE3631A.py: the HPE3631A driver for  *)
(* the HP E3631A triple output DC power supply.                            *)
(*                                                                         *)
(* Voltages and currents are counted in millionths, microvolts and         *)
(* microamperes (6.18 V is 6 180 000), the settling pause in milliseconds.  *)
(* With a single caller a call of the driver is one action; with two       *)
(* callers each statement of a method is one.  The transport calls an      *)
(* action makes are recorded, in order, in `trace`.                        *)
(***************************************************************************)
EXTENDS Integers, Sequences, FiniteSets, TLC

VARIABLES
    active,                    \* the instrument's active-channel register
    voltage_setpoint_values,   \* range installed for voltage_setpoint
    current_limit_values,      \* range installed for current_limit
    trace,                     \* transport calls and pauses of the last action
    outcome,                   \* "ok" or the kind of error the last call raised
    result,                    \* value the last call returned
    lastOp,                    \* the last call and its arguments
    pre,                       \* active channel and ranges before the last call
    regs,                      \* the instrument's registers that are kept track of
    callers                    \* each caller's position in the method it is running

vars == <<active, voltage_setpoint_values, current_limit_values,
          trace, outcome, result, lastOp, pre, regs, callers>>

(***************************************************************************)
(* Bounds of the inputs.                                                   *)
(***************************************************************************)
MaxChannelArg == 3

ChannelArgs == -1 .. MaxChannelArg

\* setpoint arguments: -30.0, -1.0, 0.5, 1.234567, 5.0, 10.0, 30.0
ValueArgs == {-30000000, -1000000, 500000, 1234567, 5000000, 10000000, 30000000}

(***************************************************************************)
(* Static tables of the class.                                             *)
(***************************************************************************)
\* the table with the tokens of the two 25 V outputs exchanged
_output_ch_exchanged == [c \in {0, 1, 2} |->
                           IF c = 0 THEN "P6V" ELSE IF c = 1 THEN "N25V" ELSE "P25V"]

_output_ch == [c \in {0, 1, 2} |->
                 IF c = 0 THEN "P6V" ELSE IF c = 1 THEN "P25V" ELSE "N25V"]

\* the table with the negative output's range entered as a positive one
_voltage_range_positive == [c \in {0, 1, 2} |->
                              IF c = 0 THEN <<0, 6180000>> ELSE <<0, 25750000>>]

_voltage_range == [c \in {0, 1, 2} |->
                     IF c = 0 THEN <<0, 6180000>>
                     ELSE IF c = 1 THEN <<0, 25750000>> ELSE <<-25750000, 0>>]

_current_range == [c \in {0, 1, 2} |->
                     IF c = 0 THEN <<0, 5150000>> ELSE <<0, 1030000>>]

\* values=(0, 6.18) and values=(0, 5.15) of the property declarations
voltage_setpoint_default == <<0, 6180000>>
current_limit_default == <<0, 5150000>>

\* sleep(0.2)
SettleDelay == 200

(***************************************************************************)
(* The instrument behind the transport.                                    *)
(***************************************************************************)
Channels == {0, 1, 2}

InstToken == [c \in Channels |->
                IF c = 0 THEN "P6V" ELSE IF c = 1 THEN "P25V" ELSE "N25V"]

\* the active channel after the instrument has received a command
InstExec(sel, cmd, tok) ==
    IF cmd = "INST:SEL %s" /\ \E c \in Channels : InstToken[c] = tok
    THEN CHOOSE c \in Channels : InstToken[c] = tok
    ELSE sel

\* the instrument's answer to a query
InstAnswer(sel, cmd) ==
    IF cmd = "INST:SEL?" THEN InstToken[sel] ELSE ""

\* the setpoint registers: a voltage and a current limit per channel, and the
\* output switch
RegKeys ==
    {<<"VOLT", c>> : c \in Channels} \cup {<<"CURR", c>> : c \in Channels}
        \cup {<<"OUTP", 0>>}

\* no register is kept track of
NoRegs == [k \in {} |-> 0]

\* the register a command writes or a query reads while channel sel is active
InstRegister(sel, cmd) ==
    IF cmd \in {":SOUR:VOLT %g", ":SOUR:VOLT?"} THEN <<"VOLT", sel>>
    ELSE IF cmd \in {":SOUR:CURR %g", ":SOUR:CURR?"} THEN <<"CURR", sel>>
    ELSE IF cmd \in {"OUTPut %d", "OUTPut?"} THEN <<"OUTP", 0>>
    ELSE <<"none", 0>>

\* the registers after the instrument has received a command with a number
InstStore(r, sel, cmd, num) ==
    IF InstRegister(sel, cmd) \in DOMAIN r
    THEN [r EXCEPT ![InstRegister(sel, cmd)] = num]
    ELSE r

\* the number in the instrument's answer to a query; 0 for what is not kept
\* track of
InstNumber(r, sel, cmd) ==
    IF InstRegister(sel, cmd) \in DOMAIN r THEN r[InstRegister(sel, cmd)] ELSE 0

(***************************************************************************)
(* The state of one call while it runs.                                    *)
(***************************************************************************)
NoResult == [qty |-> "none", chan |-> -1, val |-> 0]

Begin(failAt) ==
    [active |-> active,
     vrange |-> voltage_setpoint_values,
     crange |-> current_limit_values,
     trace  |-> << >>,
     err    |-> "none",
     ret    |-> NoResult,
     resp   |-> "",
     num    |-> 0,
     regs   |-> regs,
     failAt |-> failAt]

Raise(w, kind) == IF w.err # "none" THEN w ELSE [w EXCEPT !.err = kind]

Entry(kind, cmd, tok, num, sel, ok, resp) ==
    [kind |-> kind, cmd |-> cmd, tok |-> tok, num |-> num,
     sel |-> sel, ok |-> ok, resp |-> resp]

\* the transport call about to be made is the one that fails
Fails(w) == w.failAt = Len(w.trace) + 1

\* blocking write(command_string)
write(w, cmd, tok, num) ==
    IF w.err # "none" THEN w
    ELSE IF Fails(w)
    THEN [w EXCEPT !.trace = Append(@, Entry("write", cmd, tok, num, w.active, FALSE, "")),
                   !.err = "TransportError"]
    ELSE [w EXCEPT !.trace = Append(@, Entry("write", cmd, tok, num, w.active, TRUE, "")),
                   !.active = InstExec(w.active, cmd, tok),
                   !.regs = InstStore(w.regs, w.active, cmd, num)]

\* blocking query(command_string) -> response_string
ask(w, cmd) ==
    IF w.err # "none" THEN w
    ELSE IF Fails(w)
    THEN [w EXCEPT !.trace = Append(@, Entry("query", cmd, "", 0, w.active, FALSE, "")),
                   !.err = "TransportError"]
    ELSE [w EXCEPT !.trace = Append(@, Entry("query", cmd, "", 0, w.active, TRUE,
                                             InstAnswer(w.active, cmd))),
                   !.resp = InstAnswer(w.active, cmd),
                   !.num = InstNumber(w.regs, w.active, cmd)]

sleep(w, ms) ==
    IF w.err # "none" THEN w
    ELSE [w EXCEPT !.trace = Append(@, Entry("sleep", "sleep", "", ms, w.active, TRUE, ""))]

Return(w, r) == IF w.err # "none" THEN w ELSE [w EXCEPT !.ret = r]

(***************************************************************************)
(* Validators and formatting.                                              *)
(***************************************************************************)
Min(a, b) == IF a <= b THEN a ELSE b
Max(a, b) == IF a >= b THEN a ELSE b

\* truncated_range(value, values): the value moved to the nearest bound
truncated_range(value, values) ==
    LET lo == Min(values[1], values[2])
        hi == Max(values[1], values[2])
    IN IF lo <= value /\ value <= hi THEN value
       ELSE IF value > hi THEN hi ELSE lo

\* strict_discrete_set(value, values): the value has to be one of values
strict_discrete_set(value, values) == value \in values

\* "%g": six significant digits; a value in millionths keeps all its
\* digits below 1.0 and loses the last ones above
FormatG(x) ==
    LET a == IF x < 0 THEN -x ELSE x
        r == IF a < 1000000 THEN a
             ELSE IF a < 10000000 THEN ((a + 5) \div 10) * 10
             ELSE ((a + 50) \div 100) * 100
    IN IF x < 0 THEN -r ELSE r

(***************************************************************************)
(* The properties of the class: Instrument.measurement is a query whose    *)
(* answer is returned, Instrument.control adds a validated, formatted      *)
(* write.  A reading is named by its quantity and by the channel that was  *)
(* active when the instrument answered.                                    *)
(***************************************************************************)
Reading(w, qty) == [qty |-> qty, chan |-> w.trace[Len(w.trace)].sel, val |-> w.num]

measurement(w, cmd, qty) ==
    LET w1 == ask(w, cmd)
    IN IF w1.err # "none" THEN w1 ELSE Return(w1, Reading(w1, qty))

vers_get(w) == measurement(w, "SYST:VERS?", "VERS")

set_output_on_get(w) == measurement(w, "OUTPut?", "OUTP")

\* values={True: 1, False: 0}, map_values=True
set_output_on_set(w, value) ==
    IF w.err # "none" THEN w
    ELSE IF ~strict_discrete_set(value, BOOLEAN) THEN Raise(w, "ValidationError")
    ELSE write(w, "OUTPut %d", "", IF value THEN 1 ELSE 0)

\* voltage_setpoint asking for the current limit
voltage_setpoint_get_limit(w) == measurement(w, ":SOUR:CURR?", "SOUR:VOLT")

voltage_setpoint_get(w) == measurement(w, ":SOUR:VOLT?", "SOUR:VOLT")

\* the property declared without its validator
voltage_setpoint_set_unvalidated(w, value) ==
    IF w.err # "none" THEN w
    ELSE write(w, ":SOUR:VOLT %g", "", FormatG(value))

\* dynamic=True: the range is the one installed on the controller
voltage_setpoint_set(w, value) ==
    IF w.err # "none" THEN w
    ELSE write(w, ":SOUR:VOLT %g", "", FormatG(truncated_range(value, w.vrange)))

current_limit_get(w) == measurement(w, ":SOUR:CURR?", "SOUR:CURR")

\* the property declared without dynamic=True: its range is the declared one
current_limit_set_static(w, value) ==
    IF w.err # "none" THEN w
    ELSE write(w, ":SOUR:CURR %g", "", FormatG(truncated_range(value, current_limit_default)))

current_limit_set(w, value) ==
    IF w.err # "none" THEN w
    ELSE write(w, ":SOUR:CURR %g", "", FormatG(truncated_range(value, w.crange)))

voltage_get(w) == measurement(w, ":MEAS:VOLT?", "MEAS:VOLT")

current_get(w) == measurement(w, ":MEAS:CURR?", "MEAS:CURR")

applied_get(w) == measurement(w, ":APPly?", "APPL")

\* map_values=True: the answer's token is mapped back to its index
select_output_get(w) ==
    LET w1 == ask(w, "INST:SEL?")
    IN IF w1.err # "none" THEN w1
       ELSE IF \E i \in DOMAIN _output_ch : _output_ch[i] = w1.resp
       THEN Return(w1, [qty |-> "INST:SEL",
                        chan |-> CHOOSE i \in DOMAIN _output_ch : _output_ch[i] = w1.resp,
                        val |-> 0])
       ELSE Raise(w1, "ValidationError")

select_output_set(w, value) ==
    IF w.err # "none" THEN w
    ELSE IF ~strict_discrete_set(value, DOMAIN _output_ch) THEN Raise(w, "ValidationError")
    ELSE write(w, "INST:SEL %s", _output_ch[value], 0)

\* self.voltage_setpoint_values = ..., self.current_limit_values = ...
voltage_setpoint_values_set(w, values) ==
    IF w.err # "none" THEN w ELSE [w EXCEPT !.vrange = values]

current_limit_values_set(w, values) ==
    IF w.err # "none" THEN w ELSE [w EXCEPT !.crange = values]

(***************************************************************************)
(* The methods of the class.                                               *)
(***************************************************************************)
\* range(len(self._output_ch))
ValidSelect == 0 .. (Cardinality(DOMAIN _output_ch) - 1)

\* set_remote with the two commands exchanged
set_remote_exchanged(w, lock_local_key) ==
    IF lock_local_key THEN write(w, "SYST:REM", "", 0)
    ELSE write(w, "SYST:RWL", "", 0)

\* set_remote going back to the first output before it changes the mode
set_remote_reselect(w, lock_local_key) ==
    LET w1 == select_output_set(w, 0)
    IN IF lock_local_key THEN write(w1, "SYST:RWL", "", 0)
       ELSE write(w1, "SYST:REM", "", 0)

set_remote(w, lock_local_key) ==
    IF lock_local_key THEN write(w, "SYST:RWL", "", 0)
    ELSE write(w, "SYST:REM", "", 0)

set_local(w) == write(w, "SYST:LOC", "", 0)

\* set_current installing its range on voltage_setpoint
set_current_other_range(w, value, select) ==
    IF select \notin ValidSelect THEN Raise(w, "NotImplementedError")
    ELSE LET w1 == select_output_set(w, select)
             w2 == voltage_setpoint_values_set(w1, _current_range[select])
         IN current_limit_set(w2, value)

\* set_current reading the selection back before it writes the limit
set_current_verify(w, value, select) ==
    IF select \notin ValidSelect THEN Raise(w, "NotImplementedError")
    ELSE LET w1 == select_output_get(select_output_set(w, select))
             w2 == current_limit_values_set(w1, _current_range[select])
         IN current_limit_set(w2, value)

set_current(w, value, select) ==
    IF select \notin ValidSelect THEN Raise(w, "NotImplementedError")
    ELSE LET w1 == select_output_set(w, select)
             w2 == current_limit_values_set(w1, _current_range[select])
         IN current_limit_set(w2, value)

\* set_voltage selecting the channel only when it is not the active one
set_voltage_short_circuit(w, value, select) ==
    IF select \notin ValidSelect THEN Raise(w, "NotImplementedError")
    ELSE LET w0 == select_output_get(w)
             w1 == IF w0.err = "none" /\ w0.ret.chan = select THEN w0
                   ELSE select_output_set(w0, select)
             w2 == voltage_setpoint_values_set(w1, _voltage_range[select])
         IN voltage_setpoint_set(w2, value)

set_voltage(w, value, select) ==
    IF select \notin ValidSelect THEN Raise(w, "NotImplementedError")
    ELSE LET w1 == select_output_set(w, select)
             w2 == voltage_setpoint_values_set(w1, _voltage_range[select])
         IN voltage_setpoint_set(w2, value)

\* the comparison self.select_output != select
SelectIsNot(w, select) == w.ret.qty = "INST:SEL" /\ w.ret.chan # select

\* the comparison self.select_output == select
SelectIs(w, select) == w.ret.qty = "INST:SEL" /\ w.ret.chan = select

\* meas_current putting back the channel that was active before it
meas_current_restore(w, select) ==
    IF select \notin ValidSelect THEN Raise(w, "NotImplementedError")
    ELSE LET w1 == select_output_get(w)
         IN IF w1.err # "none" THEN w1
            ELSE IF SelectIs(w1, select) THEN current_get(w1)
            ELSE LET w2 == current_get(sleep(select_output_set(w1, select), SettleDelay))
                     w3 == select_output_set(w2, w1.ret.chan)
                 IN Return(w3, w2.ret)

\* meas_current without the check of its argument
meas_current_unchecked(w, select) ==
    LET w1 == select_output_get(w)
    IN IF w1.err # "none" THEN w1
       ELSE IF SelectIs(w1, select) THEN current_get(w1)
       ELSE current_get(sleep(select_output_set(w1, select), SettleDelay))

\* meas_current selecting the channel whether or not it is the active one
meas_current_always_select(w, select) ==
    IF select \notin ValidSelect THEN Raise(w, "NotImplementedError")
    ELSE LET w1 == select_output_get(w)
         IN IF w1.err # "none" THEN w1
            ELSE current_get(sleep(select_output_set(w1, select), SettleDelay))

meas_current(w, select) ==
    IF select \notin ValidSelect THEN Raise(w, "NotImplementedError")
    ELSE LET w1 == select_output_get(w)
         IN IF w1.err # "none" THEN w1
            ELSE IF SelectIs(w1, select) THEN current_get(w1)
            ELSE current_get(sleep(select_output_set(w1, select), SettleDelay))

\* meas_voltage asking again when the query of the active channel fails
meas_voltage_retry(w, select) ==
    IF select \notin ValidSelect THEN Raise(w, "NotImplementedError")
    ELSE LET w0 == select_output_get(w)
             w1 == IF w0.err = "TransportError"
                   THEN select_output_get([w0 EXCEPT !.err = "none"])
                   ELSE w0
         IN IF w1.err # "none" THEN w1
            ELSE IF SelectIs(w1, select) THEN voltage_get(w1)
            ELSE voltage_get(sleep(select_output_set(w1, select), SettleDelay))

\* meas_voltage with the branches of its comparison exchanged
meas_voltage_inverted(w, select) ==
    IF select \notin ValidSelect THEN Raise(w, "NotImplementedError")
    ELSE LET w1 == select_output_get(w)
         IN IF w1.err # "none" THEN w1
            ELSE IF ~SelectIs(w1, select) THEN voltage_get(w1)
            ELSE voltage_get(sleep(select_output_set(w1, select), SettleDelay))

\* meas_voltage reading right after the selection write
meas_voltage_no_sleep(w, select) ==
    IF select \notin ValidSelect THEN Raise(w, "NotImplementedError")
    ELSE LET w1 == select_output_get(w)
         IN IF w1.err # "none" THEN w1
            ELSE IF SelectIs(w1, select) THEN voltage_get(w1)
            ELSE voltage_get(select_output_set(w1, select))

meas_voltage(w, select) ==
    IF select \notin ValidSelect THEN Raise(w, "NotImplementedError")
    ELSE LET w1 == select_output_get(w)
         IN IF w1.err # "none" THEN w1
            ELSE IF SelectIs(w1, select) THEN voltage_get(w1)
            ELSE voltage_get(sleep(select_output_set(w1, select), SettleDelay))

(***************************************************************************)
(* The calls a single caller makes, one at a time.                         *)
(***************************************************************************)
\* a call makes at most three transport calls; 0: none of them fails
MaxFailAt == 3

FailPoints == 0 .. MaxFailAt

Op(name, value, select, flag) ==
    [name |-> name, value |-> value, select |-> select, flag |-> flag]

\* the call has run as w: its effects and what the caller sees of it
Commit(w, op) ==
    /\ active' = w.active
    /\ voltage_setpoint_values' = w.vrange
    /\ current_limit_values' = w.crange
    /\ trace' = w.trace
    /\ outcome' = IF w.err = "none" THEN "ok" ELSE w.err
    /\ result' = IF w.err = "none" THEN w.ret ELSE NoResult
    /\ lastOp' = op
    /\ pre' = [active |-> active,
               vrange |-> voltage_setpoint_values,
               crange |-> current_limit_values]
    /\ regs' = w.regs
    /\ callers' = callers

\* the threads that share the controller
Callers == {1, 2}

\* a caller that is in no method: the method it runs and its arguments, the
\* line it is at, whether it has written INST:SEL, what it got back, and the
\* range and the number of its setpoint write
Idle ==
    [pc |-> "idle", name |-> "none", value |-> 0, select |-> -1,
     selected |-> FALSE, err |-> "none", ret |-> NoResult,
     values |-> << >>, num |-> 0]

\* the controller after construction, connected to an instrument
InitController ==
    /\ callers = [c \in Callers |-> Idle]
    /\ active \in Channels
    /\ voltage_setpoint_values = voltage_setpoint_default
    /\ current_limit_values = current_limit_default
    /\ trace = << >>
    /\ outcome = "ok"
    /\ result = NoResult
    /\ lastOp = Op("init", 0, -1, FALSE)
    /\ pre = [active |-> active,
              vrange |-> voltage_setpoint_default,
              crange |-> current_limit_default]

Init == InitController /\ regs = NoRegs

SetCurrent ==
    \E value \in ValueArgs, select \in ChannelArgs, f \in FailPoints :
        Commit(set_current(Begin(f), value, select),
               Op("set_current", value, select, FALSE))

SetVoltage ==
    \E value \in ValueArgs, select \in ChannelArgs, f \in FailPoints :
        Commit(set_voltage(Begin(f), value, select),
               Op("set_voltage", value, select, FALSE))

MeasCurrent ==
    \E select \in ChannelArgs, f \in FailPoints :
        Commit(meas_current(Begin(f), select), Op("meas_current", 0, select, FALSE))

MeasVoltage ==
    \E select \in ChannelArgs, f \in FailPoints :
        Commit(meas_voltage(Begin(f), select), Op("meas_voltage", 0, select, FALSE))

SetRemote ==
    \E lock \in BOOLEAN, f \in FailPoints :
        Commit(set_remote(Begin(f), lock), Op("set_remote", 0, -1, lock))

SetLocal ==
    \E f \in FailPoints :
        Commit(set_local(Begin(f)), Op("set_local", 0, -1, FALSE))

SelectOutputSet ==
    \E value \in ChannelArgs, f \in FailPoints :
        Commit(select_output_set(Begin(f), value),
               Op("select_output.set", 0, value, FALSE))

SelectOutputGet ==
    \E f \in FailPoints :
        Commit(select_output_get(Begin(f)), Op("select_output.get", 0, -1, FALSE))

VoltageSetpointSet ==
    \E value \in ValueArgs, f \in FailPoints :
        Commit(voltage_setpoint_set(Begin(f), value),
               Op("voltage_setpoint.set", value, -1, FALSE))

VoltageSetpointGet ==
    \E f \in FailPoints :
        Commit(voltage_setpoint_get(Begin(f)), Op("voltage_setpoint.get", 0, -1, FALSE))

CurrentLimitSet ==
    \E value \in ValueArgs, f \in FailPoints :
        Commit(current_limit_set(Begin(f), value),
               Op("current_limit.set", value, -1, FALSE))

CurrentLimitGet ==
    \E f \in FailPoints :
        Commit(current_limit_get(Begin(f)), Op("current_limit.get", 0, -1, FALSE))

SetOutputOnSet ==
    \E value \in BOOLEAN, f \in FailPoints :
        Commit(set_output_on_set(Begin(f), value), Op("set_output_on.set", 0, -1, value))

SetOutputOnGet ==
    \E f \in FailPoints :
        Commit(set_output_on_get(Begin(f)), Op("set_output_on.get", 0, -1, FALSE))

VoltageGet ==
    \E f \in FailPoints :
        Commit(voltage_get(Begin(f)), Op("voltage.get", 0, -1, FALSE))

CurrentGet ==
    \E f \in FailPoints :
        Commit(current_get(Begin(f)), Op("current.get", 0, -1, FALSE))

AppliedGet ==
    \E f \in FailPoints :
        Commit(applied_get(Begin(f)), Op("applied.get", 0, -1, FALSE))

VersGet ==
    \E f \in FailPoints :
        Commit(vers_get(Begin(f)), Op("vers.get", 0, -1, FALSE))

Next ==
    \/ SetCurrent
    \/ SetVoltage
    \/ MeasCurrent
    \/ MeasVoltage
    \/ SetRemote
    \/ SetLocal
    \/ SelectOutputSet
    \/ SelectOutputGet
    \/ VoltageSetpointSet
    \/ VoltageSetpointGet
    \/ CurrentLimitSet
    \/ CurrentLimitGet
    \/ SetOutputOnSet
    \/ SetOutputOnGet
    \/ VoltageGet
    \/ CurrentGet
    \/ AppliedGet
    \/ VersGet

Spec == Init /\ [][Next]_vars

(***************************************************************************)
(* The settable properties written and read back on a controller on which  *)
(* neither set_voltage nor set_current is called, with the instrument's    *)
(* registers kept track of; the active channel stays the one of the start. *)
(***************************************************************************)
InitRoundTrip == InitController /\ regs = [k \in RegKeys |-> 0]

NextRoundTrip ==
    \/ VoltageSetpointSet
    \/ VoltageSetpointGet
    \/ CurrentLimitSet
    \/ CurrentLimitGet
    \/ SetOutputOnSet
    \/ SetOutputOnGet

SpecRoundTrip == InitRoundTrip /\ [][NextRoundTrip]_vars

(***************************************************************************)
(* Two callers that use one controller with nothing that serializes them:  *)
(* each runs one of the four methods, one statement at a time, and a       *)
(* statement of the one may run between two statements of the other.       *)
(***************************************************************************)
\* the statement has run as w; the caller goes on as rec
Step(w, c, rec) ==
    /\ active' = w.active
    /\ voltage_setpoint_values' = w.vrange
    /\ current_limit_values' = w.crange
    /\ regs' = w.regs
    /\ trace' = w.trace
    /\ callers' = [callers EXCEPT ![c] =
                       IF w.err = "none" THEN rec
                       ELSE [rec EXCEPT !.pc = "done", !.err = w.err]]
    /\ UNCHANGED <<outcome, result, lastOp, pre>>

\* the method is entered: if select not in range(len(self._output_ch))
Enter(c, name, value, select) ==
    /\ callers[c].pc = "idle"
    /\ LET rec == [callers[c] EXCEPT !.name = name, !.value = value,
                                     !.select = select]
       IN IF select \notin ValidSelect
          THEN Step(Raise(Begin(0), "NotImplementedError"), c, rec)
          ELSE Step(Begin(0), c,
                    [rec EXCEPT !.pc = IF name \in {"set_current", "set_voltage"}
                                       THEN "select" ELSE "compare"])

CallSetCurrent ==
    \E c \in Callers, value \in ValueArgs, select \in ChannelArgs :
        Enter(c, "set_current", value, select)

CallSetVoltage ==
    \E c \in Callers, value \in ValueArgs, select \in ChannelArgs :
        Enter(c, "set_voltage", value, select)

CallMeasCurrent ==
    \E c \in Callers, select \in ChannelArgs : Enter(c, "meas_current", 0, select)

CallMeasVoltage ==
    \E c \in Callers, select \in ChannelArgs : Enter(c, "meas_voltage", 0, select)

\* if self.select_output == select
Compare ==
    \E c \in Callers :
        /\ callers[c].pc = "compare"
        /\ LET w == select_output_get(Begin(0))
           IN Step(w, c, [callers[c] EXCEPT !.pc = IF SelectIs(w, callers[c].select)
                                                  THEN "read" ELSE "select"])

\* self.select_output = select
Select ==
    \E c \in Callers :
        /\ callers[c].pc = "select"
        /\ Step(select_output_set(Begin(0), callers[c].select), c,
                [callers[c] EXCEPT !.selected = TRUE,
                                   !.pc = IF callers[c].name \in {"set_current", "set_voltage"}
                                          THEN "values" ELSE "sleep"])

\* sleep(0.2)
Settle ==
    \E c \in Callers :
        /\ callers[c].pc = "sleep"
        /\ Step(sleep(Begin(0), SettleDelay), c, [callers[c] EXCEPT !.pc = "read"])

\* return self.current, return self.voltage
Measure ==
    \E c \in Callers :
        /\ callers[c].pc = "read"
        /\ LET w == IF callers[c].name = "meas_current" THEN current_get(Begin(0))
                    ELSE voltage_get(Begin(0))
           IN Step(w, c, [callers[c] EXCEPT !.pc = "done", !.ret = w.ret])

\* self.current_limit_values = ..., self.voltage_setpoint_values = ...
Override ==
    \E c \in Callers :
        /\ callers[c].pc = "values"
        /\ LET w == IF callers[c].name = "set_current"
                    THEN current_limit_values_set(Begin(0), _current_range[callers[c].select])
                    ELSE voltage_setpoint_values_set(Begin(0), _voltage_range[callers[c].select])
           IN Step(w, c, [callers[c] EXCEPT !.pc = "setpoint"])

\* self.current_limit = value, self.voltage_setpoint = value
Setpoint ==
    \E c \in Callers :
        /\ callers[c].pc = "setpoint"
        /\ LET w == IF callers[c].name = "set_current"
                    THEN current_limit_set(Begin(0), callers[c].value)
                    ELSE voltage_setpoint_set(Begin(0), callers[c].value)
           IN Step(w, c, [callers[c] EXCEPT
                             !.pc = "done",
                             !.values = IF callers[c].name = "set_current"
                                        THEN current_limit_values
                                        ELSE voltage_setpoint_values,
                             !.num = w.trace[1].num])

NextConcurrent ==
    \/ CallSetCurrent
    \/ CallSetVoltage
    \/ CallMeasCurrent
    \/ CallMeasVoltage
    \/ Compare
    \/ Select
    \/ Settle
    \/ Measure
    \/ Override
    \/ Setpoint

SpecConcurrent == Init /\ [][NextConcurrent]_vars

(***************************************************************************)
(* What the claims observe of the last call.                               *)
(***************************************************************************)
Convenience == {"set_current", "set_voltage", "meas_current", "meas_voltage"}
Setters == {"set_current", "set_voltage"}
Measurers == {"meas_current", "meas_voltage"}

Indices(t) == 1 .. Len(t)

IsTransport(e) == e.kind \in {"write", "query"}
IsSelectWrite(e) == e.kind = "write" /\ e.cmd = "INST:SEL %s"
IsSelectQuery(e) == e.kind = "query" /\ e.cmd = "INST:SEL?"
IsPause(e) == e.kind = "sleep"
IsSetpointWrite(e) == e.kind = "write" /\ e.cmd \in {":SOUR:VOLT %g", ":SOUR:CURR %g"}
IsMeasRead(e) == e.kind = "query" /\ e.cmd \in {":MEAS:VOLT?", ":MEAS:CURR?"}

RoundTrips(t) == Cardinality({i \in Indices(t) : IsTransport(t[i])})

SetpointCmd(name) == IF name = "set_voltage" THEN ":SOUR:VOLT %g" ELSE ":SOUR:CURR %g"
MeasCmd(name) == IF name = "meas_voltage" THEN ":MEAS:VOLT?" ELSE ":MEAS:CURR?"

Unchanged ==
    /\ active = pre.active
    /\ voltage_setpoint_values = pre.vrange
    /\ current_limit_values = pre.crange

\* C1: for a channel argument outside {0,1,2}, set_current, set_voltage,
\* meas_current and meas_voltage fail without any transport call (no query,
\* no write, no pause) and leave the active channel and the installed
\* voltage and current ranges unchanged.
C1_InvalidChannelNoTransport ==
    (lastOp.name \in Convenience /\ lastOp.select \notin {0, 1, 2}) =>
        /\ outcome # "ok"
        /\ trace = << >>
        /\ result = NoResult
        /\ Unchanged

C1_Witness ==
    /\ lastOp.name = "meas_current"
    /\ lastOp.select = 3
    /\ outcome = "NotImplementedError"
    /\ trace = << >>
    /\ voltage_setpoint_values # voltage_setpoint_default

\* C2: for a channel argument that is not one of the three indices, the error
\* of set_current, set_voltage, meas_current and meas_voltage is of the kind
\* InvalidChannelError, not a generic "not implemented" kind.
C2_InvalidChannelErrorKind ==
    (lastOp.name \in Convenience /\ lastOp.select \notin {0, 1, 2}) =>
        outcome = "InvalidChannelError"

\* C3: every measurement read issued by meas_current(channel) or
\* meas_voltage(channel), channel in {0,1,2}, is the read of the quantity asked
\* for, issued while the instrument's active channel equals channel, and the
\* value returned is that channel's value.
C3_MeasReadsRequestedChannel ==
    (lastOp.name \in Measurers /\ lastOp.select \in {0, 1, 2}) =>
        /\ \A i \in Indices(trace) :
               IsMeasRead(trace[i]) =>
                   /\ trace[i].sel = lastOp.select
                   /\ trace[i].cmd = MeasCmd(lastOp.name)
        /\ outcome = "ok" =>
               /\ IsMeasRead(trace[Len(trace)])
               /\ result.chan = lastOp.select
               /\ result.qty = (IF lastOp.name = "meas_voltage"
                                THEN "MEAS:VOLT" ELSE "MEAS:CURR")

C3_Witness ==
    /\ lastOp.name = "meas_voltage"
    /\ lastOp.select = 2
    /\ pre.active = 0
    /\ outcome = "ok"
    /\ result = [qty |-> "MEAS:VOLT", chan |-> 2, val |-> 0]

\* C4: for channel in {0,1,2}, set_voltage and set_current write the selector
\* INST:SEL with the channel's token as their first transport call, whatever
\* channel is active, also when it is channel already; the setpoint write of
\* the call comes after it and is issued while the active channel is channel.
C4_SelectBeforeSetpoint ==
    (lastOp.name \in Setters /\ lastOp.select \in {0, 1, 2}) =>
        /\ Len(trace) >= 1
        /\ IsSelectWrite(trace[1])
        /\ trace[1].tok = InstToken[lastOp.select]
        /\ trace[1].sel = pre.active
        /\ \A i \in Indices(trace) :
               IsSetpointWrite(trace[i]) =>
                   /\ i = 2
                   /\ trace[1].ok
                   /\ trace[i].cmd = SetpointCmd(lastOp.name)
                   /\ trace[i].sel = lastOp.select
        /\ outcome = "ok" => (Len(trace) = 2 /\ IsSetpointWrite(trace[2]))

C4_Witness ==
    /\ lastOp.name = "set_voltage"
    /\ lastOp.select = 1
    /\ pre.active = 1
    /\ outcome = "ok"
    /\ IsSelectWrite(trace[1])
    /\ IsSetpointWrite(trace[2])

\* the (min, max) pairs the claims give per channel
TableVoltageRange(c) ==
    IF c = 0 THEN <<0, 6180000>> ELSE IF c = 1 THEN <<0, 25750000>> ELSE <<-25750000, 0>>

TableCurrentRange(c) ==
    IF c = 0 THEN <<0, 5150000>> ELSE <<0, 1030000>>

\* the range the last call's setpoint write is validated against
RangeInForce ==
    IF lastOp.name = "set_voltage" THEN TableVoltageRange(lastOp.select)
    ELSE IF lastOp.name = "set_current" THEN TableCurrentRange(lastOp.select)
    ELSE IF lastOp.name = "voltage_setpoint.set" THEN pre.vrange
    ELSE pre.crange

Inside(x, r) == r[1] <= x /\ x <= r[2]

\* y is x with six significant digits: a multiple of the unit of x's sixth
\* digit, no further from x than half of that unit
SixDigits(x, y) ==
    LET a == IF x < 0 THEN -x ELSE x
        unit == IF a < 1000000 THEN 1 ELSE IF a < 10000000 THEN 10 ELSE 100
        d == IF x < y THEN y - x ELSE x - y
    IN y % unit = 0 /\ 2 * d <= unit

SetpointOps == Setters \cup {"voltage_setpoint.set", "current_limit.set"}

\* the last call writes a setpoint whose value is outside the range in force
OutOfRangeSetpoint ==
    /\ lastOp.name \in SetpointOps
    /\ lastOp.name \in Setters => lastOp.select \in {0, 1, 2}
    /\ ~Inside(lastOp.value, RangeInForce)
    /\ outcome # "TransportError"

MeasDone == lastOp.name \in Measurers /\ lastOp.select \in {0, 1, 2} /\ outcome = "ok"

\* C7 as stated: meas_current and meas_voltage called while the active channel
\* already equals channel make exactly one transport round-trip, the
\* measurement read, with no selection write and no settling pause.
C7_SameChannelOneRoundTrip ==
    (MeasDone /\ pre.active = lastOp.select) =>
        /\ RoundTrips(trace) = 1
        /\ \A i \in Indices(trace) : ~IsSelectWrite(trace[i]) /\ ~IsPause(trace[i])

\* C7, amended: meas_current and meas_voltage called while the active channel
\* already equals channel make exactly two transport round-trips, the query of
\* the active channel and then the measurement read, with no selection write
\* and no settling pause.
C7_SameChannelTwoRoundTrips ==
    (lastOp.name \in Measurers /\ lastOp.select \in {0, 1, 2}
        /\ pre.active = lastOp.select) =>
        /\ \A i \in Indices(trace) : ~IsSelectWrite(trace[i]) /\ ~IsPause(trace[i])
        /\ outcome = "ok" =>
               /\ RoundTrips(trace) = 2
               /\ Len(trace) = 2
               /\ IsSelectQuery(trace[1])
               /\ IsMeasRead(trace[2])

C7_Witness ==
    /\ MeasDone
    /\ lastOp.name = "meas_current"
    /\ pre.active = 1
    /\ lastOp.select = 1
    /\ Len(trace) = 2

\* C8 as stated: meas_current and meas_voltage called while the active channel
\* differs from channel make exactly two transport round-trips: the selection
\* write, then the settling pause, then the measurement read; the pause occurs
\* if and only if the active channel had to change.
C8_OtherChannelTwoRoundTrips ==
    /\ (MeasDone /\ pre.active # lastOp.select) =>
           /\ RoundTrips(trace) = 2
           /\ Len(trace) = 3
           /\ IsSelectWrite(trace[1])
           /\ IsPause(trace[2])
           /\ IsMeasRead(trace[3])
    /\ MeasDone =>
           ((\E i \in Indices(trace) : IsPause(trace[i])) <=> pre.active # lastOp.select)

\* C8, amended: meas_current and meas_voltage called while the active channel
\* differs from channel make exactly three transport round-trips: the query of
\* the active channel, the selection write of channel, then the settling pause
\* of 200 ms, then the measurement read; the pause lies strictly between the
\* selection write and the measurement read and occurs if and only if the
\* active channel had to change.
C8_OtherChannelThreeRoundTrips ==
    /\ (MeasDone /\ pre.active # lastOp.select) =>
           /\ RoundTrips(trace) = 3
           /\ Len(trace) = 4
           /\ IsSelectQuery(trace[1])
           /\ IsSelectWrite(trace[2])
           /\ trace[2].tok = InstToken[lastOp.select]
           /\ IsPause(trace[3])
           /\ trace[3].num = 200
           /\ IsMeasRead(trace[4])
    /\ MeasDone =>
           ((\E i \in Indices(trace) : IsPause(trace[i])) <=> pre.active # lastOp.select)
    /\ \A i \in Indices(trace) :
           IsPause(trace[i]) =>
               /\ lastOp.name \in Measurers
               /\ pre.active # lastOp.select
               /\ i > 1
               /\ IsSelectWrite(trace[i - 1])
               /\ trace[i - 1].ok

C8_Witness ==
    /\ MeasDone
    /\ lastOp.name = "meas_voltage"
    /\ pre.active = 0
    /\ lastOp.select = 2
    /\ Len(trace) = 4
    /\ IsPause(trace[3])

\* C9 as stated: every property access or convenience call makes at most two
\* round-trips with the instrument: one for a plain property access, two for a
\* select-then-act sequence, never three or more.
C9_AtMostTwoRoundTrips ==
    /\ RoundTrips(trace) <= 2
    /\ lastOp.name \notin Convenience => RoundTrips(trace) <= 1

\* C9, amended: every property access or convenience call makes at most three
\* round-trips with the instrument: one for a plain property access, set_remote
\* or set_local, two for set_current and set_voltage and for meas_current and
\* meas_voltage on the channel that is already active, three for meas_current
\* and meas_voltage when the channel has to change; never four or more.
C9_AtMostThreeRoundTrips ==
    /\ RoundTrips(trace) <= 3
    /\ lastOp.name \notin Convenience => RoundTrips(trace) <= 1
    /\ lastOp.name \in Setters => RoundTrips(trace) <= 2
    /\ (lastOp.name \in Measurers /\ pre.active = lastOp.select) => RoundTrips(trace) <= 2
    /\ outcome = "ok" =>
           RoundTrips(trace) =
               (IF lastOp.name = "init" THEN 0
                ELSE IF lastOp.name \in Setters THEN 2
                ELSE IF lastOp.name \in Measurers
                THEN (IF pre.active = lastOp.select THEN 2 ELSE 3)
                ELSE 1)

C9_Witness ==
    /\ lastOp.name = "meas_current"
    /\ outcome = "ok"
    /\ RoundTrips(trace) = 3

\* the calls that are no select_output write and make none
NonSelecting ==
    {"init", "select_output.get", "voltage.get", "current.get", "applied.get",
     "voltage_setpoint.set", "voltage_setpoint.get", "current_limit.set",
     "current_limit.get", "set_output_on.set", "set_output_on.get",
     "vers.get", "set_remote", "set_local"}

\* C10: the active channel is always one of the three channels and changes
\* only by a select_output write, made directly or inside set_current,
\* set_voltage, meas_current or meas_voltage: a query of select_output, a read
\* of voltage, current or applied, a write of voltage_setpoint, current_limit
\* or the output switch, set_remote and set_local leave it unchanged.
C10_ActiveChangesOnlyBySelect ==
    /\ active \in {0, 1, 2}
    /\ lastOp.name \in NonSelecting =>
           /\ active = pre.active
           /\ \A i \in Indices(trace) : ~IsSelectWrite(trace[i])
    /\ active # pre.active =>
           /\ lastOp.name \in Convenience \cup {"select_output.set"}
           /\ active = lastOp.select
           /\ \E i \in Indices(trace) :
                  /\ IsSelectWrite(trace[i])
                  /\ trace[i].ok
                  /\ trace[i].tok = InstToken[active]
    /\ \A i \in Indices(trace) : trace[i].sel \in {0, 1, 2}

C10_Witness ==
    /\ lastOp.name = "set_remote"
    /\ lastOp.flag
    /\ outcome = "ok"
    /\ trace[1].cmd = "SYST:RWL"
    /\ active = 2
    /\ pre.active = 2

\* a successful convenience call for one of the three channels
ConvenienceDone ==
    lastOp.name \in Convenience /\ lastOp.select \in {0, 1, 2} /\ outcome = "ok"

\* C11: after set_current, set_voltage, meas_current or meas_voltage has
\* completed for channel c in {0,1,2} the active channel is c, whatever channel
\* was active before; the channel active before is not restored, and a direct
\* query of select_output that follows returns c.
C11_ActiveIsLastUsedChannel ==
    [][/\ ConvenienceDone' => active' = lastOp'.select
       /\ (ConvenienceDone /\ lastOp'.name = "select_output.get" /\ outcome' = "ok") =>
              /\ result'.qty = "INST:SEL"
              /\ result'.chan = lastOp.select]_vars

C11_Witness ==
    /\ ConvenienceDone
    /\ lastOp.name = "meas_current"
    /\ lastOp.select = 2
    /\ pre.active = 0
    /\ active = 2

\* C12: when the transport fails on a step of a call, the call ends with that
\* error: the failed command is the last thing the call does (no later
\* command, no pause, no second attempt), nothing is returned, and a call that
\* ends otherwise has no failed command.
C12_TransportFailureAborts ==
    /\ outcome = "TransportError" =>
           /\ Len(trace) >= 1
           /\ ~trace[Len(trace)].ok
           /\ IsTransport(trace[Len(trace)])
           /\ result = NoResult
    /\ \A i \in Indices(trace) :
           ~trace[i].ok => (i = Len(trace) /\ outcome = "TransportError")
    /\ \A i, j \in Indices(trace) :
           (i < j /\ IsTransport(trace[i]) /\ IsTransport(trace[j])) =>
               trace[i].cmd # trace[j].cmd
    /\ (lastOp.name \in Measurers /\ Len(trace) >= 1 /\ ~trace[1].ok) =>
           (Len(trace) = 1 /\ active = pre.active)
    /\ (lastOp.name \in Setters /\ Len(trace) >= 1 /\ ~trace[1].ok) =>
           (Len(trace) = 1 /\ Unchanged)

C12_Witness ==
    /\ lastOp.name = "meas_voltage"
    /\ lastOp.select = 1
    /\ pre.active = 0
    /\ outcome = "TransportError"
    /\ Len(trace) = 2
    /\ IsSelectWrite(trace[2])
    /\ ~trace[2].ok
    /\ active = 0

\* the wire tokens of the three indices
TableToken(i) == IF i = 0 THEN "P6V" ELSE IF i = 1 THEN "P25V" ELSE "N25V"

\* C13: select_output maps indices and wire tokens one to one (0 P6V, 1 P25V,
\* 2 N25V): set(i) for i in {0,1,2} sends INST:SEL with the token of i, get
\* returns the index of the token answered, set(i) followed by get() returns
\* i, and set of any other value fails with ValidationError before a write is
\* sent and leaves the active channel unchanged.
C13_SelectOutputBijection ==
    /\ [](/\ \A i, j \in DOMAIN _output_ch : _output_ch[i] = _output_ch[j] => i = j
          /\ (lastOp.name = "select_output.set" /\ lastOp.select \in {0, 1, 2}) =>
                 /\ Len(trace) = 1
                 /\ IsSelectWrite(trace[1])
                 /\ trace[1].tok = TableToken(lastOp.select)
                 /\ outcome = "ok" => active = lastOp.select
          /\ (lastOp.name = "select_output.set" /\ lastOp.select \notin {0, 1, 2}) =>
                 /\ outcome = "ValidationError"
                 /\ trace = << >>
                 /\ active = pre.active
          /\ (lastOp.name = "select_output.get" /\ outcome = "ok") =>
                 /\ result.qty = "INST:SEL"
                 /\ result.chan \in {0, 1, 2}
                 /\ trace[1].resp = TableToken(result.chan)
                 /\ result.chan = active)
    /\ [][(/\ lastOp.name = "select_output.set"
           /\ outcome = "ok"
           /\ lastOp'.name = "select_output.get"
           /\ outcome' = "ok") => result'.chan = lastOp.select]_vars

C13_Witness ==
    /\ lastOp.name = "select_output.get"
    /\ outcome = "ok"
    /\ trace[1].resp = "N25V"
    /\ result.chan = 2

\* C16: set_remote(lock_local_key) makes exactly one write, SYST:RWL when
\* lock_local_key is true and SYST:REM otherwise, set_local() makes exactly one
\* write, SYST:LOC; neither makes a query or a pause, and neither changes the
\* active channel or the installed voltage and current ranges.
C16_RemoteLocalOneWrite ==
    lastOp.name \in {"set_remote", "set_local"} =>
        /\ Len(trace) = 1
        /\ trace[1].kind = "write"
        /\ trace[1].cmd = (IF lastOp.name = "set_local" THEN "SYST:LOC"
                           ELSE IF lastOp.flag THEN "SYST:RWL" ELSE "SYST:REM")
        /\ result = NoResult
        /\ Unchanged

C16_Witness ==
    /\ lastOp.name = "set_remote"
    /\ ~lastOp.flag
    /\ outcome = "ok"
    /\ trace[1].cmd = "SYST:REM"
    /\ pre.vrange = <<-25750000, 0>>
    /\ voltage_setpoint_values = <<-25750000, 0>>

C19_RangesChangedByOwnSetter ==
    /\ lastOp.name = "set_voltage" => current_limit_values = pre.crange
    /\ lastOp.name = "set_current" => voltage_setpoint_values = pre.vrange
    /\ lastOp.name \in Measurers \cup {"select_output.set"} =>
           /\ voltage_setpoint_values = pre.vrange
           /\ current_limit_values = pre.crange
    /\ \E c \in {0, 1, 2} : voltage_setpoint_values = TableVoltageRange(c)
    /\ \E c \in {0, 1, 2} : current_limit_values = TableCurrentRange(c)

C19_Witness ==
    /\ lastOp.name = "set_current"
    /\ lastOp.select = 1
    /\ outcome = "ok"
    /\ pre.crange = <<0, 5150000>>
    /\ current_limit_values = <<0, 1030000>>
    /\ pre.vrange = <<-25750000, 0>>
    /\ voltage_setpoint_values = <<-25750000, 0>>

\* x moved to the nearest bound of r
Nearest(x, r) == IF x < r[1] THEN r[1] ELSE IF x > r[2] THEN r[2] ELSE x

\* the last call wrote the property, the next one reads it back
WrittenThenRead(prop) ==
    /\ lastOp.name = prop \o ".set"
    /\ outcome = "ok"
    /\ lastOp'.name = prop \o ".get"
    /\ outcome' = "ok"

MeasReturned(c) ==
    /\ callers[c].name \in Measurers
    /\ callers[c].pc = "done"
    /\ callers[c].err = "none"

\* another caller has selected channel ch
SelectedByOther(c, ch) ==
    \E d \in Callers \ {c} : callers[d].selected /\ callers[d].select = ch

\* C15: with two callers and nothing that serializes them a measuring call
\* for c1 can issue its read while the active channel is c2, selected by the
\* other caller; it comes back with a reading and no error.  Every measuring
\* call that is not stopped at its channel check returns a reading of the
\* quantity asked for, taken on its own channel or on one the other caller
\* has selected.
C15_RaceReadsOtherCallersChannel ==
    \A c \in Callers :
        (callers[c].name \in Measurers /\ callers[c].pc = "done"
            /\ callers[c].select \in ValidSelect) =>
            /\ callers[c].err = "none"
            /\ callers[c].ret.qty = (IF callers[c].name = "meas_current"
                                     THEN "MEAS:CURR" ELSE "MEAS:VOLT")
            /\ \/ callers[c].ret.chan = callers[c].select
               \/ SelectedByOther(c, callers[c].ret.chan)

\* meas_voltage(1) of one caller has selected P25V, set_current(v, 2) of the
\* other has selected N25V before the read: the reading is N25V's
C15_Witness ==
    /\ MeasReturned(1)
    /\ callers[1].name = "meas_voltage"
    /\ callers[1].select = 1
    /\ callers[1].selected
    /\ callers[1].ret = [qty |-> "MEAS:VOLT", chan |-> 2, val |-> 0]
    /\ callers[2].name = "set_current"
    /\ callers[2].select = 2
    /\ callers[2].selected

\* caller c has come back from a setting method that has written its setpoint
SetReturned(c) ==
    /\ callers[c].name \in Setters
    /\ callers[c].pc = "done"
    /\ callers[c].err = "none"

\* C17 as stated: for every set_voltage(v, c) and set_current(v, c) the range
\* its setpoint write is validated against is the range of c, also when a
\* call for another channel runs between its range override and its write.
C17_RangeOverrideNeverLeaks ==
    \A c \in Callers :
        SetReturned(c) =>
            callers[c].values = (IF callers[c].name = "set_current"
                                 THEN TableCurrentRange(callers[c].select)
                                 ELSE TableVoltageRange(callers[c].select))

====
